---- MODULE Spec2Model ----
(***************************************************************************)
(* Tunnel registry and ingress forwarding of opentunnel                    *)
(* (server/backend/app/services/registry.py, tunnel_service.py and the     *)
(* WebSocket endpoint of api/v1/tunnels.py).                               *)
(*                                                                         *)
(* The server is a single asyncio event loop: code between two awaits is   *)
(* one atomic step.  asyncio.Lock is acquired without yielding when it is  *)
(* free, so a critical section without an inner await is one step; the     *)
(* critical sections that await a websocket close keep the lock over       *)
(* two steps.                                                              *)
(***************************************************************************)
EXTENDS Integers, FiniteSets, Sequences, TLC

\* ---- bounds ----
MaxTunnels == 2      \* Tunnel objects (and tokens) ever minted
MaxConns == 2        \* WebSocket connections ever opened
MaxCalls == 2        \* public ingress requests ever made
MaxCreates == 2      \* create_tunnel calls ever made
MaxReqs == 3         \* management requests (POST/DELETE /api/tunnels) ever made
MaxNow == 2          \* readings of time.time() after the first
MaxLiveCalls == 1    \* public requests followed to their end under fairness

\* ---- program values ----
Routes == {"svc"}
\* The routes of the registry's and the store's key space: "aux" is a second
\* route, used where a claim is about several sessions at once.
AllRoutes == Routes \cup {"aux"}

\* Strings a create request may carry as its route that the request model
\* refuses: too short, a character outside the class, too long (65 letters).
LongName == "aaaaaaaaaaaaaaaaaaaaaaaaaaaaaaaaaaaaaaaaaaaaaaaaaaaaaaaaaaaaaaaaa"
BadNames == {"sv", "s/c", LongName}

\* The keys the two dictionaries and the store are observed at.
Names == AllRoutes \cup BadNames
NoTunnel == 0        \* dict.get(...) returned None
NoRoute == "none"
NoToken == 0         \* query parameter "token" missing
NoWs == 0            \* Tunnel.websocket is None
NoCid == 0           \* payload["correlation_id"] == "" / missing
NoUser == "nobody"   \* a request that has no current_user (yet)
NoCall == 0
min_length == 3     \* CreateTunnelRequest.route
max_length == 64
NoTime == -1         \* Tunnel.last_seen is None

TunnelIds == 1..MaxTunnels
Tokens == 1..MaxTunnels
Conns == 1..MaxConns
Calls == 1..MaxCalls
Cids == 1..MaxCalls
Reqs == 1..MaxReqs
StatusCodes == {200}

VARIABLES
    route_to_tunnel,   \* TunnelRegistry._route_to_tunnel : route -> Tunnel object (id)
    token_to_route,    \* TunnelRegistry._token_to_route  : token -> route
    tunnels,           \* heap of Tunnel objects
    lock,              \* TunnelRegistry._lock and who holds it across an await
    conns,             \* one WebSocket and its tunnel_ws endpoint task each
    calls,             \* one forward_request / send_ingress_request task each
    creates,           \* results of create_tunnel calls
    nextId,            \* uuid4() for tokens: the next fresh token / Tunnel object
    nextCid,           \* uuid4() for correlation ids: the next fresh id
    now,               \* time.time()
    db,                \* table tunnel_tokens: route -> token of its record
    reqs,              \* one POST/DELETE /api/tunnels request task each
    ping,              \* the ping_connected call of the background task
    fwd                \* forward_request: the last payload built / response rendered

vars == <<route_to_tunnel, token_to_route, tunnels, lock, conns, calls,
          creates, nextId, nextCid, now, db, reqs, ping, fwd>>

\* The state outside the registry, its callers' tasks and the store.
ext == <<db, reqs, ping, fwd>>

\* The registry, its lock, the connections and the token generator.
reg == <<route_to_tunnel, token_to_route, tunnels, lock, conns, nextId>>

\* ---- helpers ----
EmptyPending == [c \in {} |-> NoCall]

FreshTunnel == [route |-> NoRoute, token |-> NoToken, last_seen |-> NoTime,
                websocket |-> NoWs, connected |-> FALSE, pending |-> EmptyPending]

FreeLock == [holder |-> "free", conn |-> NoWs, code |-> 0]

NoMessage == [type |-> "none", correlation_id |-> NoCid, status_code |-> 0]

NoHttp == [status_code |-> 0, detail |-> ""]

\* forward_request has built no payload and rendered no response yet.
NoFwd == [op |-> "none", request_headers |-> {}, headers |-> {},
          resp |-> [status_code |-> "missing", body_b64 |-> "missing"],
          http |-> [status_code |-> 0, error |-> "none"]]

\* A management request that has not arrived yet.
\* found: what the request's read of the store returned; token: the token of
\* the session it created or removed; stored: the record the store held for
\* the route when the request removed the session from the registry.
NoReq == [kind |-> "none", pc |-> "idle", route |-> NoRoute, found |-> NoToken,
          token |-> NoToken, stored |-> NoToken, status_code |-> 0,
          user |-> NoUser]

\* The background task between two ping_connected calls.
\* todo: the sessions of the snapshot not yet pinged; snapshot, pinged,
\* failed: the sessions of the last snapshot, those whose send succeeded and
\* those whose send raised.
IdlePing == [pc |-> "idle", todo |-> << >>, snapshot |-> {}, pinged |-> {},
             failed |-> {}]

\* The JSON objects a tunnel client may send: responses with or without a
\* correlation id, pongs, and frames of a type the server does not know
\* ("hello"), which may carry a correlation id too.
Messages ==
    [type : {"response"}, correlation_id : Cids \cup {NoCid}, status_code : StatusCodes]
    \cup {[type |-> "pong", correlation_id |-> NoCid, status_code |-> 0]}
    \cup [type : {"hello"}, correlation_id : Cids \cup {NoCid}, status_code : {0}]

\* A lookup that finds the session by the token the connection came with.
TunnelOfWebsocketByToken(ws) ==
    LET hits == {t \in TunnelIds : \E r \in AllRoutes : route_to_tunnel[r] = t
                                   /\ tunnels[t].token = conns[ws].token}
    IN IF hits = {} THEN NoTunnel ELSE CHOOSE t \in hits : TRUE

\* for tunnel in self._route_to_tunnel.values(): if tunnel.websocket is websocket
TunnelOfWebsocket(ws) ==
    LET hits == {t \in TunnelIds : \E r \in AllRoutes : route_to_tunnel[r] = t
                                   /\ tunnels[t].websocket = ws}
    IN IF hits = {} THEN NoTunnel ELSE CHOOSE t \in hits : TRUE

\* tunnel.pending.pop(correlation_id, None)
PendingPop(p, cid) == [c \in DOMAIN p \ {cid} |-> p[c]]

\* tunnel.pending[correlation_id] = PendingRequest(future=...)
PendingPut(p, cid, k) == [c \in DOMAIN p \cup {cid} |-> IF c = cid THEN k ELSE p[c]]

Init ==
    /\ route_to_tunnel = [r \in Names |-> NoTunnel]
    /\ token_to_route = [t \in Tokens |-> NoRoute]
    /\ tunnels = [t \in TunnelIds |-> FreshTunnel]
    /\ lock = FreeLock
    /\ conns = [c \in Conns |-> [pc |-> "new", token |-> NoToken, open |-> FALSE,
                                 closed_by_server |-> FALSE,
                                 close_code |-> 0, sent |-> {}]]
    /\ calls = [k \in Calls |-> [pc |-> "idle", route |-> NoRoute, cid |-> NoCid,
                                 callerCid |-> NoCid,
                                 websocket |-> NoWs, future |-> "none",
                                 result |-> NoMessage, outcome |-> "none",
                                 frames |-> 0, http |-> NoHttp]]
    /\ creates = << >>
    /\ nextId = 1
    /\ nextCid = 1
    /\ now = 0
    /\ db = [r \in Names |-> NoToken]
    /\ reqs = [q \in Reqs |-> NoReq]
    /\ ping = IdlePing
    /\ fwd = NoFwd

\* ---- TunnelRegistry.create_tunnel ----

\* A creator that leaves the token index as it is.
TokenNotIndexed(idx, token, route) == idx

\* self._token_to_route[token] = route
TokenIndexed(idx, token, route) == [idx EXCEPT ![token] = route]

\* A deletion that leaves the token index as it is.
TokenKept(idx, token) == idx

\* self._token_to_route.pop(tunnel.token, None)
TokenPopped(idx, token) == [idx EXCEPT ![token] = NoRoute]

\* A creator that does not look the route up.
RouteTakenNever(route) == FALSE

\* if route in self._route_to_tunnel
RouteTaken(route) == route_to_tunnel[route] # NoTunnel

\* One call of create_tunnel(route); its result is appended to creates.
CreateTunnel(route) ==
    /\ lock.holder = "free"
    /\ Len(creates) < MaxCreates
    /\ IF RouteTaken(route)
       THEN /\ creates' = Append(creates, [route |-> route, outcome |-> "ValueError",
                                            token |-> NoToken])
            /\ UNCHANGED <<route_to_tunnel, token_to_route, tunnels, nextId>>
       ELSE /\ nextId <= MaxTunnels
            /\ tunnels' = [tunnels EXCEPT ![nextId] =
                               [FreshTunnel EXCEPT !.route = route, !.token = nextId]]
            /\ route_to_tunnel' = [route_to_tunnel EXCEPT ![route] = nextId]
            /\ token_to_route' = TokenIndexed(token_to_route, nextId, route)
            /\ creates' = Append(creates, [route |-> route, outcome |-> "ok",
                                            token |-> nextId])
            /\ nextId' = nextId + 1
    /\ UNCHANGED <<lock, conns, calls, nextCid, now>>
    /\ UNCHANGED ext

\* ---- websocket.close() ----
CloseWebsocket(cs, ws, code) ==
    [cs EXCEPT ![ws].open = FALSE,
               ![ws].closed_by_server = TRUE,
               ![ws].close_code = IF cs[ws].closed_by_server THEN @ ELSE code]

\* ---- TunnelRegistry.delete_tunnel ----

\* Up to "await tunnel.websocket.close()", which is reached with the lock held.
DeleteTunnel(route) ==
    /\ lock.holder = "free"
    /\ LET t == route_to_tunnel[route] IN
       IF t = NoTunnel
       THEN UNCHANGED <<route_to_tunnel, token_to_route, lock>>
       ELSE /\ route_to_tunnel' = [route_to_tunnel EXCEPT ![route] = NoTunnel]
            /\ token_to_route' = TokenPopped(token_to_route, tunnels[t].token)
            /\ lock' = IF tunnels[t].websocket # NoWs
                       THEN [holder |-> "delete", conn |-> tunnels[t].websocket,
                             code |-> 1000]
                       ELSE FreeLock
    /\ UNCHANGED <<tunnels, conns, calls, creates, nextId, nextCid, now>>
    /\ UNCHANGED ext

\* The close returns (or raises, which is swallowed); the lock is released.
DeleteTunnelClose ==
    /\ lock.holder = "delete"
    /\ conns' = CloseWebsocket(conns, lock.conn, lock.code)
    /\ lock' = FreeLock
    /\ UNCHANGED <<route_to_tunnel, token_to_route, tunnels, calls, creates,
                   nextId, nextCid, now>>
    /\ UNCHANGED ext

\* An attach that keeps the connection a session already has.
AttachedTunnelKeepOld(tun, ws) ==
    [tun EXCEPT !.websocket = IF @ = NoWs THEN ws ELSE @,
                !.connected = TRUE, !.last_seen = now]

\* ---- TunnelRegistry.attach_websocket (body of the critical section) ----
AttachedTunnel(tun, ws) ==
    [tun EXCEPT !.websocket = ws, !.connected = TRUE, !.last_seen = now]

\* A detach that clears last_seen with the websocket.
DetachedTunnelReset(tun) ==
    [tun EXCEPT !.websocket = NoWs, !.connected = FALSE, !.last_seen = NoTime]

\* A detach that leaves the session as it is.
DetachedTunnelKept(tun) == tun

\* ---- TunnelRegistry.detach_websocket ----
DetachedTunnel(tun) ==
    [tun EXCEPT !.websocket = NoWs, !.connected = FALSE, !.last_seen = now]

DetachWebsocket(ws) ==
    LET t == TunnelOfWebsocket(ws) IN
    IF t = NoTunnel THEN tunnels
    ELSE [tunnels EXCEPT ![t] = DetachedTunnel(tunnels[t])]

\* ---- tunnel_ws: the WebSocket endpoint ----

\* A validation that lets every token through.
ValidationCodeNone(tok) == 0

\* route = registry._token_to_route.get(token): close 4403 if there is none;
\* tunnel = registry._route_to_tunnel.get(route): close 4404 if there is none;
\* 0 when the token passes.
ValidationCode(tok) ==
    IF token_to_route[tok] = NoRoute THEN 4403
    ELSE IF route_to_tunnel[token_to_route[tok]] = NoTunnel THEN 4404
    ELSE 0

\* The upgrade request arrives; token validation under registry._lock.
WsConnect(c, tok) ==
    /\ conns[c].pc = "new"
    /\ \A b \in Conns : b < c => conns[b].pc # "new"
    /\ IF tok = NoToken
       THEN /\ conns' = [CloseWebsocket(conns, c, 4401) EXCEPT ![c].pc = "rejected"]
            /\ UNCHANGED lock
       ELSE /\ lock.holder = "free"
            /\ IF ValidationCode(tok) # 0
               THEN /\ lock' = [holder |-> "ws", conn |-> c,
                                code |-> ValidationCode(tok)]
                    /\ conns' = [conns EXCEPT ![c].pc = "rejecting"]
               ELSE /\ conns' = [conns EXCEPT ![c].pc = "validated", ![c].token = tok]
                    /\ UNCHANGED lock
    /\ UNCHANGED <<route_to_tunnel, token_to_route, tunnels, calls, creates,
                   nextId, nextCid, now>>
    /\ UNCHANGED ext

\* "await websocket.close(code=...)" inside the critical section returns.
WsRejectClose ==
    /\ lock.holder = "ws"
    /\ conns' = [CloseWebsocket(conns, lock.conn, lock.code) EXCEPT
                    ![lock.conn].pc = "rejected"]
    /\ lock' = FreeLock
    /\ UNCHANGED <<route_to_tunnel, token_to_route, tunnels, calls, creates,
                   nextId, nextCid, now>>
    /\ UNCHANGED ext

\* ---- TunnelRegistry.attach_websocket: the PermissionError it raises ----
\* "Invalid token" if the token index has no entry for the token, "Unknown
\* route" if the route index has no session for its route, "none" otherwise.
AttachError(token) ==
    IF token_to_route[token] = NoRoute THEN "Invalid token"
    ELSE IF route_to_tunnel[token_to_route[token]] = NoTunnel THEN "Unknown route"
    ELSE "none"

\* websocket.accept() and registry.attach_websocket(token, websocket).
WsAttach(c) ==
    /\ conns[c].pc = "validated"
    /\ lock.holder = "free"
    /\ LET t == IF AttachError(conns[c].token) # "none" THEN NoTunnel
                ELSE route_to_tunnel[token_to_route[conns[c].token]]
       IN IF t = NoTunnel
          THEN \* PermissionError leaves tunnel_ws; nothing closes the socket
               /\ conns' = [conns EXCEPT ![c].pc = "failed", ![c].open = TRUE]
               /\ UNCHANGED tunnels
          ELSE /\ tunnels' = [tunnels EXCEPT ![t] = AttachedTunnel(tunnels[t], c)]
               /\ conns' = [conns EXCEPT ![c].pc = "receiving", ![c].open = TRUE]
    /\ UNCHANGED <<route_to_tunnel, token_to_route, lock, calls, creates,
                   nextId, nextCid, now>>
    /\ UNCHANGED ext

\* The tunnel client goes away (environment).
ClientDisconnect(c) ==
    /\ conns[c].pc = "receiving"
    /\ conns[c].open
    /\ conns' = [conns EXCEPT ![c].open = FALSE]
    /\ UNCHANGED <<route_to_tunnel, token_to_route, tunnels, lock, calls, creates,
                   nextId, nextCid, now>>
    /\ UNCHANGED ext

\* receive_json raises WebSocketDisconnect: detach_websocket.
WsDisconnected(c) ==
    /\ conns[c].pc = "receiving"
    /\ ~conns[c].open
    /\ lock.holder = "free"
    /\ tunnels' = DetachWebsocket(c)
    /\ conns' = [conns EXCEPT ![c].pc = "ended"]
    /\ UNCHANGED <<route_to_tunnel, token_to_route, lock, calls, creates,
                   nextId, nextCid, now>>
    /\ UNCHANGED ext

\* receive_json or the handler raises another exception (a frame that is not
\* a JSON object): detach_websocket, then websocket.close().
WsError(c) ==
    /\ conns[c].pc = "receiving"
    /\ conns[c].open
    /\ lock.holder = "free"
    /\ tunnels' = DetachWebsocket(c)
    /\ conns' = [CloseWebsocket(conns, c, 1000) EXCEPT ![c].pc = "ended"]
    /\ UNCHANGED <<route_to_tunnel, token_to_route, lock, calls, creates,
                   nextId, nextCid, now>>
    /\ UNCHANGED ext

\* ---- TunnelRegistry.handle_client_message ----

\* A dispatch that resolves whichever request is pending, whatever its id.
PendingGetAny(p, cid) ==
    IF DOMAIN p = {} THEN NoCall ELSE p[CHOOSE c \in DOMAIN p : TRUE]

\* A dispatch that looks the id up in the pending table of every session.
PendingGetAnywhere(p, cid) ==
    LET hits == {t \in TunnelIds : cid \in DOMAIN tunnels[t].pending}
    IN IF hits = {} THEN NoCall
       ELSE tunnels[CHOOSE t \in hits : \A u \in hits : t >= u].pending[cid]

\* pending = tunnel.pending.get(correlation_id): the call whose future is resolved
PendingGet(p, cid) == IF cid \in DOMAIN p THEN p[cid] ELSE NoCall

\* A dispatcher that takes every frame that is not a pong for a response.
IsResponseAnyType(message) == message.type # "pong"

\* if message.get("type") != "response": return
IsResponse(message) == message.type = "response"

\* A dispatcher that does not look at the state of the future.
FutureDoneNever(k) == FALSE

\* pending.future.done(): the future holds a result or was cancelled
FutureDone(k) == calls[k].future # "pending"

\* One frame read by the receive loop of connection c and dispatched.
HandleClientMessage(c, message) ==
    /\ conns[c].pc = "receiving"
    /\ conns[c].open
    /\ lock.holder = "free"
    /\ LET t == TunnelOfWebsocket(c) IN
       IF message.type = "pong"
       THEN /\ tunnels' = IF t = NoTunnel THEN tunnels
                          ELSE [tunnels EXCEPT ![t].last_seen = now]
            /\ UNCHANGED calls
       ELSE IF ~IsResponse(message) \/ message.correlation_id = NoCid
                \/ t = NoTunnel
       THEN UNCHANGED <<tunnels, calls>>
       ELSE LET k == PendingGet(tunnels[t].pending, message.correlation_id) IN
            /\ calls' = IF k # NoCall /\ ~FutureDone(k)
                        THEN [calls EXCEPT ![k].future = "result",
                                           ![k].result = message]
                        ELSE calls
            /\ UNCHANGED tunnels
    /\ UNCHANGED <<route_to_tunnel, token_to_route, lock, conns, creates,
                   nextId, nextCid, now>>
    /\ UNCHANGED ext

\* ---- TunnelService.forward_request: the HTTP answer to the public caller ----
\* ConnectionError becomes HTTPException(502); a response frame is rendered
\* with its status; any other exception leaves the handler (500).
HttpResponse(outcome, resp) ==
    CASE outcome = "ConnectionError" ->
             [status_code |-> 502, detail |-> "Tunnel not connected"]
      [] outcome = "response" ->
             [status_code |-> resp.status_code, detail |-> ""]
      [] OTHER ->
             [status_code |-> 500, detail |-> "Internal Server Error"]

\* ---- TunnelRegistry.send_ingress_request ----

\* A check that forgets the connected flag and the websocket.
NotConnectedRouteOnly(t) == t = NoTunnel

\* not tunnel or not tunnel.connected or not tunnel.websocket
NotConnected(t) ==
    \/ t = NoTunnel
    \/ ~tunnels[t].connected
    \/ tunnels[t].websocket = NoWs

\* correlation_id = payload.get("correlation_id") or uuid.uuid4().hex
AssignCid(payloadCid) == IF payloadCid = NoCid THEN nextCid ELSE payloadCid

\* A forwarder that copies a correlation id the public caller supplied.
PayloadCidFromCaller(callerCid) == callerCid

\* forward_request builds the payload with "correlation_id": "", whatever
\* the public request carries in its headers, query or body.
PayloadCid(callerCid) == NoCid

\* send_ingress_request(route, payload): the first critical section.
\* payloadCid is payload.get("correlation_id"); callerCid is a correlation
\* id the public caller put into its request.
SendIngressPayload(k, route, callerCid, payloadCid) ==
    /\ calls[k].pc = "idle"
    /\ \A j \in Calls : j < k => calls[j].pc # "idle"
    /\ lock.holder = "free"
    /\ LET t == route_to_tunnel[route]
           cid == AssignCid(payloadCid)
       IN IF NotConnected(t)
          THEN /\ calls' = [calls EXCEPT ![k].pc = "done", ![k].route = route,
                                ![k].callerCid = callerCid,
                                ![k].outcome = "ConnectionError",
                                ![k].http = HttpResponse("ConnectionError", NoMessage)]
               /\ UNCHANGED <<tunnels, nextCid>>
          ELSE /\ calls' = [calls EXCEPT ![k].pc = "send", ![k].route = route,
                                ![k].cid = cid, ![k].callerCid = callerCid,
                                ![k].websocket = tunnels[t].websocket,
                                ![k].future = "pending"]
               /\ tunnels' = [tunnels EXCEPT ![t].pending = PendingPut(@, cid, k)]
               /\ nextCid' = nextCid + 1
    /\ UNCHANGED <<route_to_tunnel, token_to_route, lock, conns, creates, nextId, now>>
    /\ UNCHANGED ext

\* forward_request calls send_ingress_request with the payload it built.
SendIngressRequest(k, route, callerCid) ==
    SendIngressPayload(k, route, callerCid, PayloadCid(callerCid))

\* The transport of ws still carries frames (None has no send_json).
IsOpen(ws) == ws # NoWs /\ conns[ws].open

\* await websocket.send_json({"type": "request", **payload}) succeeds.
SendFrame(k) ==
    /\ calls[k].pc = "send"
    /\ IsOpen(calls[k].websocket)
    /\ conns' = [conns EXCEPT ![calls[k].websocket].sent = @ \cup {calls[k].cid}]
    /\ calls' = [calls EXCEPT ![k].pc = "wait", ![k].frames = @ + 1]
    /\ UNCHANGED <<route_to_tunnel, token_to_route, tunnels, lock, creates,
                   nextId, nextCid, now>>
    /\ UNCHANGED ext

\* send_json raises on a closed connection (RuntimeError or
\* WebSocketDisconnect, neither a ConnectionError).  The try/finally has not
\* been entered: the pending entry stays.
SendFrameFails(k) ==
    /\ calls[k].pc = "send"
    /\ ~IsOpen(calls[k].websocket)
    /\ calls' = [calls EXCEPT ![k].pc = "done", ![k].outcome = "SendError",
                     ![k].http = HttpResponse("SendError", NoMessage)]
    /\ UNCHANGED <<route_to_tunnel, token_to_route, tunnels, lock, conns, creates,
                   nextId, nextCid, now>>
    /\ UNCHANGED ext

\* A wait without a deadline.
TimeoutNever(k) == FALSE /\ UNCHANGED vars

\* A forwarder that writes the request again when the deadline passes.
TimeoutRetry(k) ==
    /\ calls[k].pc = "wait"
    /\ calls[k].future = "pending"
    /\ calls' = [calls EXCEPT ![k].pc = "send"]
    /\ UNCHANGED <<route_to_tunnel, token_to_route, tunnels, lock, conns, creates,
                   nextId, nextCid, now>>
    /\ UNCHANGED ext

\* asyncio.wait_for: the deadline passes first; the future is cancelled.
Timeout(k) ==
    /\ calls[k].pc = "wait"
    /\ calls[k].future = "pending"
    /\ calls' = [calls EXCEPT ![k].pc = "finally", ![k].future = "cancelled"]
    /\ UNCHANGED <<route_to_tunnel, token_to_route, tunnels, lock, conns, creates,
                   nextId, nextCid, now>>
    /\ UNCHANGED ext

\* A finally block that leaves the pending entry in place.
FinallyKeep(k) == tunnels

\* finally: tunnel = self._route_to_tunnel.get(route); tunnel.pending.pop(cid)
FinallyPop(k) ==
    LET t == route_to_tunnel[calls[k].route] IN
    IF t = NoTunnel THEN tunnels
    ELSE [tunnels EXCEPT ![t].pending = PendingPop(@, calls[k].cid)]

\* The awaiting task resumes with the response; finally; forward_request
\* renders the response.
ReturnResponse(k) ==
    /\ calls[k].pc = "wait"
    /\ calls[k].future = "result"
    /\ lock.holder = "free"
    /\ tunnels' = FinallyPop(k)
    /\ calls' = [calls EXCEPT ![k].pc = "done", ![k].outcome = "response",
                     ![k].http = HttpResponse("response", calls[k].result)]
    /\ UNCHANGED <<route_to_tunnel, token_to_route, lock, conns, creates,
                   nextId, nextCid, now>>
    /\ UNCHANGED ext

\* The awaiting task resumes with TimeoutError; finally; the exception leaves
\* forward_request, which catches ConnectionError only.
RaiseTimeout(k) ==
    /\ calls[k].pc = "finally"
    /\ lock.holder = "free"
    /\ tunnels' = FinallyPop(k)
    /\ calls' = [calls EXCEPT ![k].pc = "done", ![k].outcome = "TimeoutError",
                     ![k].http = HttpResponse("TimeoutError", NoMessage)]
    /\ UNCHANGED <<route_to_tunnel, token_to_route, lock, conns, creates,
                   nextId, nextCid, now>>
    /\ UNCHANGED ext

Next ==
    \/ \E r \in Routes : CreateTunnel(r)
    \/ \E r \in Routes : DeleteTunnel(r)
    \/ DeleteTunnelClose
    \/ \E c \in Conns, tok \in Tokens \cup {NoToken} : WsConnect(c, tok)
    \/ WsRejectClose
    \/ \E c \in Conns : WsAttach(c)
    \/ \E c \in Conns : ClientDisconnect(c)
    \/ \E c \in Conns : WsDisconnected(c)
    \/ \E c \in Conns : WsError(c)
    \/ \E c \in Conns, m \in Messages : HandleClientMessage(c, m)
    \/ \E k \in Calls, r \in Routes : SendIngressRequest(k, r, NoCid)
    \/ \E k \in Calls : SendFrame(k)
    \/ \E k \in Calls : SendFrameFails(k)
    \/ \E k \in Calls : Timeout(k)
    \/ \E k \in Calls : ReturnResponse(k)
    \/ \E k \in Calls : RaiseTimeout(k)

Spec == Init /\ [][Next]_vars

\* ---- the shutdown event handler of the application ----

\* task.cancel() on the ping task (asleep between two ping_connected calls
\* here) and session.close() on the store's session; the registry is not
\* touched.
Shutdown ==
    /\ ping.pc = "idle"
    /\ ping' = [ping EXCEPT !.pc = "cancelled"]
    /\ UNCHANGED <<reg, calls, creates, nextCid, now, db, reqs, fwd>>

NextShutdown ==
    \/ Next
    \/ Shutdown

SpecShutdown == Init /\ [][NextShutdown]_vars

\* ---- the task of a public request is cancelled while it awaits ----

\* CancelledError is thrown into "await asyncio.wait_for(future, timeout)":
\* wait_for cancels a future that is not done yet.  (Where the response has
\* arrived already, wait_for of some Python versions returns it instead:
\* that is ReturnResponse.)
Cancel(k) ==
    /\ calls[k].pc = "wait"
    /\ calls' = [calls EXCEPT ![k].pc = "cancelled",
                     ![k].future = IF @ = "pending" THEN "cancelled" ELSE @]
    /\ UNCHANGED <<route_to_tunnel, token_to_route, tunnels, lock, conns, creates,
                   nextId, nextCid, now>>
    /\ UNCHANGED ext

\* The finally block of the cancelled task; CancelledError leaves the
\* handler and no response is written.
RaiseCancelled(k) ==
    /\ calls[k].pc = "cancelled"
    /\ lock.holder = "free"
    /\ tunnels' = FinallyPop(k)
    /\ calls' = [calls EXCEPT ![k].pc = "done", ![k].outcome = "CancelledError"]
    /\ UNCHANGED <<route_to_tunnel, token_to_route, lock, conns, creates,
                   nextId, nextCid, now>>
    /\ UNCHANGED ext

NextCancel ==
    \/ Next
    \/ \E k \in Calls : Cancel(k)
    \/ \E k \in Calls : RaiseCancelled(k)

SpecCancel == Init /\ [][NextCancel]_vars

\* ---- public callers that put a correlation id into their request ----
NextCaller ==
    \/ Next
    \/ \E k \in Calls, r \in Routes, callerCid \in Cids :
           SendIngressRequest(k, r, callerCid)

SpecCaller == Init /\ [][NextCaller]_vars

\* ---- TunnelService.create_tunnel / delete_tunnel with the token store ----
\* The store is the table tunnel_tokens (route unique); every statement on it
\* is awaited, so other tasks run between a read and the code that uses it.

\* TunnelDBService.get_tunnel_token(route)
GetTunnelToken(store, route) == store[route]

\* TunnelDBService.create_tunnel_token: session.add, commit
CreateTunnelToken(store, route, token) == [store EXCEPT ![route] = token]

\* A store whose delete leaves the record in place.
DeleteTunnelTokenKept(store, route, found) == store

\* TunnelDBService.delete_tunnel_token: delete the record read, commit
DeleteTunnelToken(store, route, found) ==
    IF found # NoToken /\ store[route] = found
    THEN [store EXCEPT ![route] = NoToken]
    ELSE store

\* The authenticated users of the management API.
Users == {"alice", "bob"}

\* POST /api/tunnels of current_user arrives:
\* "await db_service.get_tunnel_token(route)".
SvcCreateReadAs(q, user, route) ==
    /\ reqs[q].pc = "idle"
    /\ \A p \in Reqs : p < q => reqs[p].pc # "idle"
    /\ reqs' = [reqs EXCEPT ![q] = [NoReq EXCEPT !.kind = "create", !.pc = "checked",
                                         !.user = user,
                                         !.route = route,
                                         !.found = GetTunnelToken(db, route)]]
    /\ UNCHANGED <<reg, calls, creates, nextCid, now, db, ping, fwd>>

\* POST /api/tunnels by the one user of a single-user run.
SvcCreateRead(q, route) == SvcCreateReadAs(q, "alice", route)

\* The creator resumes: 409 if the read found a record; otherwise
\* registry.create_tunnel, whose ValueError nothing catches (500); on success
\* "await db_service.create_tunnel_token" is issued.
SvcCreateRegister(q) ==
    /\ reqs[q].kind = "create"
    /\ reqs[q].pc = "checked"
    /\ IF reqs[q].found # NoToken
       THEN /\ reqs' = [reqs EXCEPT ![q].pc = "done", ![q].status_code = 409]
            /\ UNCHANGED <<route_to_tunnel, token_to_route, tunnels, nextId>>
       ELSE /\ lock.holder = "free"
            /\ IF RouteTaken(reqs[q].route)
               THEN /\ reqs' = [reqs EXCEPT ![q].pc = "done", ![q].status_code = 500]
                    /\ UNCHANGED <<route_to_tunnel, token_to_route, tunnels, nextId>>
               ELSE /\ nextId <= MaxTunnels
                    /\ tunnels' = [tunnels EXCEPT ![nextId] =
                                       [FreshTunnel EXCEPT !.route = reqs[q].route,
                                                           !.token = nextId]]
                    /\ route_to_tunnel' =
                           [route_to_tunnel EXCEPT ![reqs[q].route] = nextId]
                    /\ token_to_route' =
                           [token_to_route EXCEPT ![nextId] = reqs[q].route]
                    /\ nextId' = nextId + 1
                    /\ reqs' = [reqs EXCEPT ![q].pc = "insert", ![q].token = nextId]
    /\ UNCHANGED <<lock, conns, calls, creates, nextCid, now, db, ping, fwd>>

\* The insert commits and the creator answers 200; a second record for the
\* route violates the unique constraint (IntegrityError, 500).
SvcCreateCommit(q) ==
    /\ reqs[q].kind = "create"
    /\ reqs[q].pc = "insert"
    /\ IF GetTunnelToken(db, reqs[q].route) # NoToken
       THEN /\ reqs' = [reqs EXCEPT ![q].pc = "done", ![q].status_code = 500]
            /\ UNCHANGED db
       ELSE /\ db' = CreateTunnelToken(db, reqs[q].route, reqs[q].token)
            /\ reqs' = [reqs EXCEPT ![q].pc = "done", ![q].status_code = 200]
    /\ UNCHANGED <<reg, calls, creates, nextCid, now, ping, fwd>>

\* DELETE /api/tunnels/{route} arrives: registry.delete_tunnel up to the
\* close of the session's websocket; 404 if the registry has no such route.
SvcDeleteAs(q, user, route) ==
    /\ reqs[q].pc = "idle"
    /\ \A p \in Reqs : p < q => reqs[p].pc # "idle"
    /\ lock.holder = "free"
    /\ LET t == route_to_tunnel[route] IN
       IF t = NoTunnel
       THEN /\ reqs' = [reqs EXCEPT ![q] = [NoReq EXCEPT !.kind = "delete", !.user = user,
                                                 !.pc = "done", !.route = route,
                                                 !.status_code = 404]]
            /\ UNCHANGED <<route_to_tunnel, token_to_route, lock>>
       ELSE /\ route_to_tunnel' = [route_to_tunnel EXCEPT ![route] = NoTunnel]
            /\ token_to_route' = TokenPopped(token_to_route, tunnels[t].token)
            /\ lock' = IF tunnels[t].websocket # NoWs
                       THEN [holder |-> "delete", conn |-> tunnels[t].websocket,
                             code |-> 1000]
                       ELSE FreeLock
            /\ reqs' = [reqs EXCEPT ![q] =
                            [NoReq EXCEPT !.kind = "delete", !.user = user, !.route = route,
                                          !.pc = IF tunnels[t].websocket # NoWs
                                                 THEN "closing" ELSE "removed",
                                          !.token = tunnels[t].token,
                                          !.stored = GetTunnelToken(db, route)]]
    /\ UNCHANGED <<tunnels, conns, nextId, calls, creates, nextCid, now, db, ping, fwd>>

\* DELETE /api/tunnels/{route} by the one user of a single-user run.
SvcDelete(q, route) == SvcDeleteAs(q, "alice", route)

\* The close inside registry.delete_tunnel returns; the lock is released.
SvcDeleteClose(q) ==
    /\ reqs[q].pc = "closing"
    /\ lock.holder = "delete"
    /\ conns' = CloseWebsocket(conns, lock.conn, lock.code)
    /\ lock' = FreeLock
    /\ reqs' = [reqs EXCEPT ![q].pc = "removed"]
    /\ UNCHANGED <<route_to_tunnel, token_to_route, tunnels, nextId, calls, creates,
                   nextCid, now, db, ping, fwd>>

\* delete_tunnel_token: "token = await self.get_tunnel_token(route)".
SvcDeleteRead(q) ==
    /\ reqs[q].pc = "removed"
    /\ reqs' = [reqs EXCEPT ![q].pc = "read",
                            ![q].found = GetTunnelToken(db, reqs[q].route)]
    /\ UNCHANGED <<reg, calls, creates, nextCid, now, db, ping, fwd>>

\* The record read is deleted and committed; the request answers 200 with
\* removed = true.
SvcDeleteCommit(q) ==
    /\ reqs[q].pc = "read"
    /\ db' = DeleteTunnelToken(db, reqs[q].route, reqs[q].found)
    /\ reqs' = [reqs EXCEPT ![q].pc = "done", ![q].status_code = 200]
    /\ UNCHANGED <<reg, calls, creates, nextCid, now, ping, fwd>>

NextMgmt ==
    \/ \E q \in Reqs, r \in Routes : SvcCreateRead(q, r)
    \/ \E q \in Reqs : SvcCreateRegister(q)
    \/ \E q \in Reqs : SvcCreateCommit(q)
    \/ \E q \in Reqs, r \in Routes : SvcDelete(q, r)
    \/ \E q \in Reqs : SvcDeleteClose(q)
    \/ \E q \in Reqs : SvcDeleteRead(q)
    \/ \E q \in Reqs : SvcDeleteCommit(q)
    \/ \E c \in Conns, tok \in Tokens \cup {NoToken} : WsConnect(c, tok)
    \/ WsRejectClose
    \/ \E c \in Conns : WsAttach(c)
    \/ \E c \in Conns : ClientDisconnect(c)
    \/ \E c \in Conns : WsDisconnected(c)

SpecMgmt == Init /\ [][NextMgmt]_vars

\* ---- /api/tunnels: authentication and request validation ----

\* What the Authorization header of a request holds: nothing, a bearer token
\* that does not verify, or the token of an active user.
Credentials == {"none", "invalid", "valid"}

\* security = HTTPBearer(): 403 when the request carries no credentials.
HTTPBearer(credentials) == IF credentials = "none" THEN 403 ELSE 0

\* A dependency that lets every request through.
GetCurrentUserOpen(credentials) == 0

\* get_current_user: the status it raises, 0 when it returns the user.
GetCurrentUser(credentials) ==
    IF HTTPBearer(credentials) # 0 THEN HTTPBearer(credentials)
    ELSE IF credentials = "invalid" THEN 401
    ELSE 0

\* The characters of a string, one by one.
CharsOf(name) ==
    CASE name = "svc" -> <<"s", "v", "c">>
      [] name = "aux" -> <<"a", "u", "x">>
      [] name = "sv" -> <<"s", "v">>
      [] name = "s/c" -> <<"s", "/", "c">>
      [] name = LongName -> [i \in 1..65 |-> "a"]

\* The class [a-zA-Z0-9-_] of the pattern.
RouteChars ==
    {"a", "b", "c", "d", "e", "f", "g", "h", "i", "j", "k", "l", "m",
     "n", "o", "p", "q", "r", "s", "t", "u", "v", "w", "x", "y", "z",
     "A", "B", "C", "D", "E", "F", "G", "H", "I", "J", "K", "L", "M",
     "N", "O", "P", "Q", "R", "S", "T", "U", "V", "W", "X", "Y", "Z",
     "0", "1", "2", "3", "4", "5", "6", "7", "8", "9", "-", "_"}

\* A request model that accepts every string.
ValidRouteAny(name) == TRUE

\* CreateTunnelRequest.route: min_length, max_length and pattern.
ValidRoute(name) ==
    /\ Len(CharsOf(name)) >= min_length
    /\ Len(CharsOf(name)) <= max_length
    /\ \A i \in 1..Len(CharsOf(name)) : CharsOf(name)[i] \in RouteChars

\* The request ends before the service is called: only its response exists.
Rejected(q, kind, route, status_code) ==
    /\ reqs' = [reqs EXCEPT ![q] = [NoReq EXCEPT !.kind = kind, !.pc = "done",
                                         !.route = route,
                                         !.status_code = status_code]]
    /\ UNCHANGED <<reg, calls, creates, nextCid, now, db, ping, fwd>>

\* POST /api/tunnels: the dependencies, then the body, then the service.
CreateTunnelEndpoint(q, credentials, name) ==
    /\ reqs[q].pc = "idle"
    /\ \A p \in Reqs : p < q => reqs[p].pc # "idle"
    /\ IF GetCurrentUser(credentials) # 0
       THEN Rejected(q, "create", name, GetCurrentUser(credentials))
       ELSE IF ~ValidRoute(name)
            THEN Rejected(q, "create", name, 422)
            ELSE SvcCreateRead(q, name)

\* GET /api/tunnels: the dependencies, then service.list_tunnels, which only
\* reads the store and the registry.
ListTunnelsEndpoint(q, credentials) ==
    /\ reqs[q].pc = "idle"
    /\ \A p \in Reqs : p < q => reqs[p].pc # "idle"
    /\ Rejected(q, "list", NoRoute,
                IF GetCurrentUser(credentials) # 0
                THEN GetCurrentUser(credentials) ELSE 200)

\* DELETE /api/tunnels/{route}: the dependencies, then the service; the path
\* parameter is a plain str.
DeleteTunnelEndpoint(q, credentials, route) ==
    /\ reqs[q].pc = "idle"
    /\ \A p \in Reqs : p < q => reqs[p].pc # "idle"
    /\ IF GetCurrentUser(credentials) # 0
       THEN Rejected(q, "delete", route, GetCurrentUser(credentials))
       ELSE SvcDelete(q, route)

NextApi ==
    \/ \E q \in Reqs, cr \in Credentials, n \in Routes \cup BadNames :
           CreateTunnelEndpoint(q, cr, n)
    \/ \E q \in Reqs, cr \in Credentials : ListTunnelsEndpoint(q, cr)
    \/ \E q \in Reqs, cr \in Credentials, r \in Routes :
           DeleteTunnelEndpoint(q, cr, r)
    \/ \E q \in Reqs : SvcCreateRegister(q)
    \/ \E q \in Reqs : SvcCreateCommit(q)
    \/ \E q \in Reqs : SvcDeleteClose(q)
    \/ \E q \in Reqs : SvcDeleteRead(q)
    \/ \E q \in Reqs : SvcDeleteCommit(q)
    \/ \E c \in Conns, tok \in Tokens \cup {NoToken} : WsConnect(c, tok)
    \/ WsRejectClose
    \/ \E c \in Conns : WsAttach(c)
    \/ \E c \in Conns : ClientDisconnect(c)
    \/ \E c \in Conns : WsDisconnected(c)

SpecApi == Init /\ [][NextApi]_vars

\* ---- TunnelRegistry.ping_connected, called by the background ping task ----

\* [t for t in self._route_to_tunnel.values() if t.connected and t.websocket]
PingTarget(t) ==
    /\ \E r \in AllRoutes : route_to_tunnel[r] = t
    /\ tunnels[t].connected
    /\ tunnels[t].websocket # NoWs

\* The values of the dict in insertion order: sessions are inserted in the
\* order their ids are allocated.
RECURSIVE InOrder(_)
InOrder(S) ==
    IF S = {} THEN << >>
    ELSE LET t == CHOOSE x \in S : \A y \in S : x <= y
         IN <<t>> \o InOrder(S \ {t})

\* A failure branch that leaves the session as it is.
PingFailedTunnelKept(tun) == tun

\* A failure branch that clears the websocket and leaves the flag.
PingFailedTunnelHalf(tun) == [tun EXCEPT !.websocket = NoWs, !.last_seen = now]

\* tunnel.websocket = None; tunnel.connected = False; tunnel.last_seen = now
PingFailedTunnel(tun) ==
    [tun EXCEPT !.websocket = NoWs, !.connected = FALSE, !.last_seen = now]

\* The loop moves on to the next session of the snapshot, or returns.
PingAdvance(p) ==
    [p EXCEPT !.todo = Tail(p.todo),
              !.pc = IF Len(p.todo) > 1 THEN "send" ELSE "idle"]

\* The snapshot of the attached sessions, taken under the lock.
PingSnapshot ==
    /\ ping.pc = "idle"
    /\ lock.holder = "free"
    /\ LET S == {t \in TunnelIds : PingTarget(t)} IN
       /\ S # {}
       /\ ping' = [pc |-> "send", todo |-> InOrder(S), snapshot |-> S,
                   pinged |-> {}, failed |-> {}]
    /\ UNCHANGED <<reg, calls, creates, nextCid, now, db, reqs, fwd>>

\* await tunnel.websocket.send_json(ping) on the next session of the
\* snapshot: the websocket is the one the session has now.  The send
\* succeeds on an open connection; on None or a closed one it raises.
PingSend ==
    /\ ping.pc = "send"
    /\ LET t == Head(ping.todo) IN
       IF IsOpen(tunnels[t].websocket)
       THEN ping' = [PingAdvance(ping) EXCEPT !.pinged = @ \cup {t}]
       ELSE ping' = [ping EXCEPT !.pc = "failed", !.failed = @ \cup {t}]
    /\ UNCHANGED <<reg, calls, creates, nextCid, now, db, reqs, fwd>>

\* except: the lock is taken; "await tunnel.websocket.close()" is reached
\* with the lock held if the session has a websocket now; otherwise the
\* three fields are set at once.
PingFail ==
    /\ ping.pc = "failed"
    /\ lock.holder = "free"
    /\ LET t == Head(ping.todo) IN
       IF tunnels[t].websocket # NoWs
       THEN /\ lock' = [holder |-> "ping", conn |-> tunnels[t].websocket,
                        code |-> 1000]
            /\ ping' = [ping EXCEPT !.pc = "closing"]
            /\ UNCHANGED tunnels
       ELSE /\ tunnels' = [tunnels EXCEPT ![t] = PingFailedTunnel(tunnels[t])]
            /\ ping' = PingAdvance(ping)
            /\ UNCHANGED lock
    /\ UNCHANGED <<route_to_tunnel, token_to_route, conns, nextId, calls, creates,
                   nextCid, now, db, reqs, fwd>>

\* The close returns (or raises, which is swallowed); the session's fields
\* are set and the lock is released.
PingFailClose ==
    /\ ping.pc = "closing"
    /\ lock.holder = "ping"
    /\ LET t == Head(ping.todo) IN
       tunnels' = [tunnels EXCEPT ![t] = PingFailedTunnel(tunnels[t])]
    /\ conns' = CloseWebsocket(conns, lock.conn, lock.code)
    /\ lock' = FreeLock
    /\ ping' = PingAdvance(ping)
    /\ UNCHANGED <<route_to_tunnel, token_to_route, nextId, calls, creates,
                   nextCid, now, db, reqs, fwd>>

NextPing ==
    \/ PingSnapshot
    \/ PingSend
    \/ PingFail
    \/ PingFailClose
    \/ \E r \in AllRoutes : CreateTunnel(r)
    \/ \E r \in AllRoutes : DeleteTunnel(r)
    \/ DeleteTunnelClose
    \/ \E c \in Conns, tok \in Tokens \cup {NoToken} : WsConnect(c, tok)
    \/ WsRejectClose
    \/ \E c \in Conns : WsAttach(c)
    \/ \E c \in Conns : ClientDisconnect(c)
    \/ \E c \in Conns : WsDisconnected(c)

SpecPing == Init /\ [][NextPing]_vars

\* ---- TunnelService.forward_request: payload headers and response rendering ----
\* Header maps are modelled by their sets of names.  JSON values of a response
\* frame are modelled by their JSON text: 200 is a number, "\"200\"" a string,
\* "missing" an absent key, "\"<U+00E9>\"" a string with a non-ASCII character.

\* Header names a public request may carry, as the client spelled them.
HeaderNames == {"Host", "Connection", "Transfer-Encoding", "TE", "keep-alive",
                "X-Api-Key", "accept"}

\* str.lower()
Lower(h) ==
    CASE h = "Host" -> "host"
      [] h = "Connection" -> "connection"
      [] h = "Transfer-Encoding" -> "transfer-encoding"
      [] h = "TE" -> "te"
      [] h = "X-Api-Key" -> "x-api-key"
      [] OTHER -> h

\* headers = {k.lower(): v for k, v in request.headers.items()}
ForwardHeaders(hs) == {Lower(h) : h \in hs}

\* The payload of a public request with headers hs is built.
BuildPayload(hs) ==
    /\ fwd' = [NoFwd EXCEPT !.op = "payload", !.request_headers = hs,
                            !.headers = ForwardHeaders(hs)]
    /\ UNCHANGED <<reg, calls, creates, nextCid, now, db, reqs, ping>>

\* Values of "status_code" and of "body_b64" a tunnel client may send.
StatusValues == {"missing", "null", "200", "404", "\"200\"", "\"abc\"", "\"\"",
                "200.5", "[200]"}
BodyValues == {"missing", "null", "\"\"", "\"aGk=\"", "\"aGk\"", "\"<U+00E9>\"", "5"}

ResponseFrames == [status_code : StatusValues, body_b64 : BodyValues]

\* int(resp.get("status_code", 502)): the value, or the exception raised.
IntOf(v) ==
    CASE v = "missing" -> [value |-> 502, error |-> "none"]
      [] v = "200" -> [value |-> 200, error |-> "none"]
      [] v = "404" -> [value |-> 404, error |-> "none"]
      [] v = "\"200\"" -> [value |-> 200, error |-> "none"]
      [] v = "200.5" -> [value |-> 200, error |-> "none"]
      [] v \in {"\"abc\"", "\"\""} -> [value |-> 0, error |-> "ValueError"]
      [] OTHER -> [value |-> 0, error |-> "TypeError"]

\* base64.b64decode(body_b64.encode("ascii")) if body_b64 else b"": "none",
\* or the exception raised.
B64Decode(v) ==
    CASE v \in {"missing", "null", "\"\"", "\"aGk=\""} -> "none"
      [] v = "\"aGk\"" -> "binascii.Error"
      [] v = "\"<U+00E9>\"" -> "UnicodeEncodeError"
      [] OTHER -> "AttributeError"

\* The lines of forward_request after send_ingress_request returned resp:
\* the Response built, or 500 for the exception that leaves the handler.
Render(resp) ==
    IF IntOf(resp.status_code).error # "none"
    THEN [status_code |-> 500, error |-> IntOf(resp.status_code).error]
    ELSE IF B64Decode(resp.body_b64) # "none"
    THEN [status_code |-> 500, error |-> B64Decode(resp.body_b64)]
    ELSE [status_code |-> IntOf(resp.status_code).value, error |-> "none"]

\* A response frame resp is rendered for the public caller.
RenderResponse(resp) ==
    /\ fwd' = [NoFwd EXCEPT !.op = "render", !.resp = resp, !.http = Render(resp)]
    /\ UNCHANGED <<reg, calls, creates, nextCid, now, db, reqs, ping>>

NextForward ==
    \/ \E hs \in SUBSET HeaderNames : BuildPayload(hs)
    \/ \E resp \in ResponseFrames : RenderResponse(resp)

SpecForward == Init /\ [][NextForward]_vars

\* ---- everything that touches a session, together ----
\* Ingress calls, the WebSocket endpoint, create and delete, and the ping task.
NextAll ==
    \/ Next
    \/ PingSnapshot
    \/ PingSend
    \/ PingFail
    \/ PingFailClose

SpecAll == Init /\ [][NextAll]_vars

\* The next step of the task of call k, whatever it is.
CallStep(k) ==
    \/ SendFrame(k)
    \/ SendFrameFails(k)
    \/ Timeout(k)
    \/ ReturnResponse(k)
    \/ RaiseTimeout(k)

\* The close that the holder of the lock awaits returns.
LockRelease ==
    \/ DeleteTunnelClose
    \/ WsRejectClose
    \/ PingFailClose

\* Scheduling: the event loop runs every task that stays ready (a send_json
\* completes, a wait_for timer fires, a task woken by its future or by the
\* lock runs), and a close awaited under the lock returns.
Fairness ==
    /\ \A k \in Calls : WF_vars(CallStep(k))
    /\ WF_vars(LockRelease)

\* The tasks of NextAll around the public requests that are followed to
\* their end: calls do not wait for one another, only for the lock, for
\* their own future and for their own timer.
NextLive ==
    \/ \E r \in Routes : CreateTunnel(r)
    \/ \E r \in Routes : DeleteTunnel(r)
    \/ DeleteTunnelClose
    \/ \E c \in Conns, tok \in Tokens \cup {NoToken} : WsConnect(c, tok)
    \/ WsRejectClose
    \/ \E c \in Conns : WsAttach(c)
    \/ \E c \in Conns : ClientDisconnect(c)
    \/ \E c \in Conns : WsDisconnected(c)
    \/ \E c \in Conns : WsError(c)
    \/ \E c \in Conns, m \in Messages : HandleClientMessage(c, m)
    \/ \E k \in 1..MaxLiveCalls, r \in Routes : SendIngressRequest(k, r, NoCid)
    \/ \E k \in Calls : SendFrame(k)
    \/ \E k \in Calls : SendFrameFails(k)
    \/ \E k \in Calls : Timeout(k)
    \/ \E k \in Calls : ReturnResponse(k)
    \/ \E k \in Calls : RaiseTimeout(k)
    \/ PingSnapshot
    \/ PingSend
    \/ PingFail
    \/ PingFailClose

SpecLive == Init /\ [][NextLive]_vars /\ Fairness

\* ======================= properties =======================

\* The sessions the registry holds.
Sessions == {t \in TunnelIds : \E r \in AllRoutes : route_to_tunnel[r] = t}

\* The calls whose futures a pending table references.
PendingCalls(t) == {tunnels[t].pending[c] : c \in DOMAIN tunnels[t].pending}

\* C1: every response a send_ingress call has been given (its future holds a
\* result, or the call has returned it) is a response frame carrying the
\* correlation id assigned to that very call; a frame for one caller never
\* reaches another, whatever the order of arrival.
C1_ResponseCorrelation ==
    \A k \in Calls :
        (calls[k].future = "result" \/ calls[k].outcome = "response") =>
            /\ calls[k].result.type = "response"
            /\ calls[k].cid # NoCid
            /\ calls[k].result.correlation_id = calls[k].cid

\* Two requests in flight on one connection; the later one is answered first.
C1_Witness ==
    /\ calls[1].pc = "wait" /\ calls[1].future = "pending"
    /\ calls[2].outcome = "response"
    /\ calls[1].websocket = calls[2].websocket
    /\ calls[1].cid \in conns[calls[1].websocket].sent

\* C2: a send_ingress call that starts on a route without an attached session
\* (no session, or connected false, or no connection) ends at once with
\* ConnectionError, rendered as 502 "Tunnel not connected"; it inserts no
\* pending entry, mints no correlation id and writes no frame.
C2_Step ==
    \A k \in Calls :
        (calls[k].pc = "idle" /\ calls'[k].pc # "idle") =>
            LET t == route_to_tunnel[calls'[k].route] IN
            (t = NoTunnel \/ ~tunnels[t].connected \/ tunnels[t].websocket = NoWs) =>
                /\ calls'[k].pc = "done"
                /\ calls'[k].outcome = "ConnectionError"
                /\ calls'[k].http = [status_code |-> 502,
                                     detail |-> "Tunnel not connected"]
                /\ calls'[k].cid = NoCid
                /\ calls'[k].future = "none"
                /\ UNCHANGED <<route_to_tunnel, token_to_route, tunnels, conns,
                               nextCid>>

C3_TimeoutIs504 ==
    \A k \in Calls :
        calls[k].outcome = "TimeoutError" =>
            calls[k].http = [status_code |-> 504, detail |-> "Tunnel timeout"]

\* C4: once a send_ingress call has timed out and returned, no session of the
\* registry holds its correlation id; and from the moment its future is
\* cancelled a response frame for that id changes nothing at all: no future,
\* no pending table, no connection.
C4_Step ==
    /\ \A k \in Calls :
           (calls'[k].pc = "done" /\ calls'[k].outcome = "TimeoutError") =>
               \A t \in TunnelIds :
                   (\E r \in AllRoutes : route_to_tunnel'[r] = t) =>
                       calls'[k].cid \notin DOMAIN tunnels'[t].pending
    /\ \A c \in Conns, m \in Messages :
           (/\ m.type = "response"
            /\ \E k \in Calls : /\ calls[k].future = "cancelled"
                                /\ calls[k].cid = m.correlation_id
            /\ HandleClientMessage(c, m)) => UNCHANGED vars

C4_LateResponseDropped == [][C4_Step]_vars

\* Call 1 timed out and returned while call 2 is still pending on the same
\* session, whose connection is open and reading frames.
C4_Witness ==
    /\ calls[1].pc = "done" /\ calls[1].outcome = "TimeoutError"
    /\ calls[2].pc = "wait" /\ calls[2].future = "pending"
    /\ calls[1].websocket = calls[2].websocket
    /\ conns[calls[1].websocket].pc = "receiving"
    /\ conns[calls[1].websocket].open
    /\ \E t \in Sessions : /\ tunnels[t].websocket = calls[1].websocket
                           /\ DOMAIN tunnels[t].pending = {calls[2].cid}

\* C5 (as claimed): no request that was in flight on a connection is still
\* pending once that connection has been detached (its receive loop has ended
\* in detach_websocket).
C5_DetachDrainsPending ==
    \A k \in Calls :
        (calls[k].pc \in {"send", "wait"} /\ calls[k].future = "pending") =>
            conns[calls[k].websocket].pc # "ended"

\* C6 (as claimed): an attach that replaces the connection a session has
\* closes the replaced connection and installs the new one.
C6_Step ==
    \A t \in TunnelIds, c \in Conns :
        (tunnels[t].websocket \notin {NoWs, c} /\ tunnels'[t].websocket = c) =>
            /\ conns'[tunnels[t].websocket].closed_by_server
            /\ ~conns'[tunnels[t].websocket].open
            /\ tunnels'[t].connected

C6_ReattachClosesPrevious == [][C6_Step]_vars

\* C7 (as claimed): an attach that replaces a connection resolves every
\* request pending on the session: the pending table is empty afterwards and
\* none of those futures is still pending.
C7_Step ==
    \A t \in TunnelIds, c \in Conns :
        (tunnels[t].websocket \notin {NoWs, c} /\ tunnels'[t].websocket = c) =>
            /\ DOMAIN tunnels'[t].pending = {}
            /\ \A k \in PendingCalls(t) : calls'[k].future # "pending"

C7_ReattachDrainsPending == [][C7_Step]_vars

\* A connection that has been bound to a session by attach_websocket.
HasAttached(c) == conns[c].pc \in {"receiving", "ended"}

\* C8: attach binds the session to the new connection; a send_ingress call
\* takes the session's connection of the moment it starts and writes its
\* request frame to that connection only; a connection that has been replaced
\* is never a session's connection again.  So a call that starts after B
\* replaced A writes to B and never to A.
C8_Step ==
    /\ \A c \in Conns :
           (conns[c].pc = "validated" /\ conns'[c].pc = "receiving") =>
               \E t \in Sessions :
                   /\ tunnels[t].token = conns[c].token
                   /\ tunnels'[t].websocket = c
                   /\ tunnels'[t].connected
    /\ \A k \in Calls :
           (calls[k].pc = "idle" /\ calls'[k].pc = "send") =>
               /\ route_to_tunnel[calls'[k].route] # NoTunnel
               /\ calls'[k].websocket =
                      tunnels[route_to_tunnel[calls'[k].route]].websocket
    /\ \A k \in Calls, c \in Conns :
           (calls[k].cid # NoCid /\ calls[k].cid \notin conns[c].sent
            /\ calls[k].cid \in conns'[c].sent) => c = calls[k].websocket
    /\ \A c \in Conns : conns[c].sent \subseteq conns'[c].sent
    /\ \A t \in TunnelIds, c \in Conns :
           (HasAttached(c) /\ tunnels[t].websocket # c) => tunnels'[t].websocket # c

C9_DeleteDrainsPending ==
    \A t \in TunnelIds :
        (tunnels[t].route # NoRoute /\ t \notin Sessions /\ lock.holder # "delete") =>
            \A k \in PendingCalls(t) : calls[k].future # "pending"

\* The create_tunnel calls that returned a session whose token is still live.
LiveCreates(route) ==
    {i \in 1..Len(creates) : /\ creates[i].route = route
                             /\ creates[i].outcome = "ok"
                             /\ token_to_route[creates[i].token] = route}

\* C10: at most one token, hence one session, per route; of the create_tunnel
\* calls for a route that were made while a session for it existed, none
\* succeeded (each failed with "Route already exists"): at most one successful
\* creator per life of the route, and every success minted a fresh token.
C10_CreateAtomic ==
    /\ \A r \in AllRoutes :
           /\ Cardinality({tok \in Tokens : token_to_route[tok] = r}) <= 1
           /\ Cardinality(LiveCreates(r)) <= 1
           /\ (route_to_tunnel[r] # NoTunnel) =>
                  /\ token_to_route[tunnels[route_to_tunnel[r]].token] = r
                  /\ tunnels[route_to_tunnel[r]].route = r
                  /\ Cardinality(LiveCreates(r)) = 1
           /\ (route_to_tunnel[r] = NoTunnel) =>
                  \A tok \in Tokens : token_to_route[tok] # r
    /\ \A i, j \in 1..Len(creates) :
           (i # j /\ creates[i].outcome = "ok" /\ creates[j].outcome = "ok") =>
               creates[i].token # creates[j].token
    /\ \A i \in 1..Len(creates) : creates[i].outcome \in {"ok", "ValueError"}

\* Two creators of the same route: the first got the session, the second
\* failed, and the session of the first is still the route's session.
C10_Witness ==
    /\ Len(creates) = 2
    /\ creates[1].outcome = "ok" /\ creates[2].outcome = "ValueError"
    /\ creates[1].route = creates[2].route
    /\ token_to_route[creates[1].token] = creates[1].route

\* C13: an upgrade without a token is closed with 4401, one whose token the
\* registry does not know is closed with 4403; such a connection is never
\* accepted (never open), never becomes a session's connection, and the step
\* that rejects it leaves every session and both indexes as they were.
C13_Step ==
    /\ \A c \in Conns, tok \in Tokens \cup {NoToken} :
           (WsConnect(c, tok) /\ tok = NoToken) =>
               /\ conns'[c].pc = "rejected"
               /\ conns'[c].close_code = 4401
               /\ ~conns'[c].open
               /\ UNCHANGED <<route_to_tunnel, token_to_route, tunnels>>
    /\ \A c \in Conns, tok \in Tokens :
           (WsConnect(c, tok) /\ token_to_route[tok] = NoRoute) =>
               /\ conns'[c].pc = "rejecting"
               /\ lock' = [holder |-> "ws", conn |-> c, code |-> 4403]
               /\ ~conns'[c].open
               /\ UNCHANGED <<route_to_tunnel, token_to_route, tunnels>>
    /\ \A c \in Conns :
           (conns[c].pc = "rejecting" /\ conns'[c].pc # "rejecting") =>
               /\ conns'[c].pc = "rejected"
               /\ conns'[c].close_code = lock.code
               /\ ~conns'[c].open
               /\ UNCHANGED <<route_to_tunnel, token_to_route, tunnels>>
    /\ \A c \in Conns :
           conns[c].pc \in {"rejecting", "rejected"} =>
               /\ conns'[c].pc \in {"rejecting", "rejected"}
               /\ ~conns'[c].open
               /\ \A t \in TunnelIds : tunnels'[t].websocket # c

C13_RejectedUpgrade == [][C13_Step]_vars

\* Connection 1 came without a token and connection 2 with a token the
\* registry does not hold, while a session exists.
C13_Witness ==
    /\ conns[1].pc = "rejected" /\ conns[1].close_code = 4401
    /\ conns[2].pc = "rejected" /\ conns[2].close_code = 4403
    /\ Sessions # {}

\* C14 (as claimed): a connection whose attach failed because the route was
\* deleted after validation is closed with code 4404.
C14_RouteGoneCloses4404 ==
    \A c \in Conns :
        conns[c].pc = "failed" => (conns[c].close_code = 4404 /\ ~conns[c].open)

\* C15 (as claimed): a call whose request frame could not be written has no
\* entry left in any pending table and is answered 502.
C15_SendFailureCleansUp ==
    \A k \in Calls :
        calls[k].outcome = "SendError" =>
            /\ calls[k].http.status_code = 502
            /\ \A t \in TunnelIds : calls[k].cid \notin DOMAIN tunnels[t].pending

\* C17 (as claimed): the step the receive loop takes on a frame that is not
\* a JSON object leaves the connection in the loop and the sessions as they
\* were.
C17_Step ==
    \A c \in Conns :
        WsError(c) => (conns'[c].pc = "receiving" /\ conns'[c].open
                       /\ tunnels' = tunnels)

C17_MalformedIgnored == [][C17_Step]_vars

\* The frames handle_client_message is claimed to ignore.
IgnoredFrames ==
    {m \in Messages : m.type \notin {"pong", "response"}
                      \/ (m.type = "response" /\ m.correlation_id = NoCid)}

\* C18: handling a frame whose type is neither pong nor response, or a
\* response without correlation id, changes nothing: no future is resolved,
\* no pending entry removed, no session's connected, websocket or last_seen
\* touched, even when the frame carries the id of a pending request.
C18_Step ==
    \A c \in Conns, m \in IgnoredFrames :
        HandleClientMessage(c, m) => UNCHANGED vars

C18_UnknownFrameIgnored == [][C18_Step]_vars

\* A request is pending on an attached session whose connection is open in
\* the receive loop: a frame of unknown type carrying that request's id can
\* be handled here, and this is also the state after it was handled.
C18_Witness ==
    \E k \in Calls, t \in Sessions :
        /\ calls[k].pc = "wait" /\ calls[k].future = "pending"
        /\ calls[k].cid \in DOMAIN tunnels[t].pending
        /\ tunnels[t].websocket = calls[k].websocket
        /\ conns[calls[k].websocket].pc = "receiving"
        /\ conns[calls[k].websocket].open
        /\ [type |-> "hello", correlation_id |-> calls[k].cid, status_code |-> 0]
               \in IgnoredFrames

\* C19: a send_ingress call writes at most one request frame, to at most
\* one connection, whatever its outcome; a call that has returned writes
\* nothing any more.
C19_NoRetry ==
    \A k \in Calls :
        /\ calls[k].frames <= 1
        /\ Cardinality({c \in Conns : calls[k].cid \in conns[c].sent}) <= 1
        /\ calls[k].outcome \in {"ConnectionError", "SendError"} => calls[k].frames = 0

\* One call has timed out and one has been answered; each wrote one frame.
C19_Witness ==
    \E j, k \in Calls :
        /\ calls[j].pc = "done" /\ calls[j].outcome = "TimeoutError"
        /\ calls[j].frames = 1
        /\ calls[k].pc = "done" /\ calls[k].outcome = "response"
        /\ calls[k].frames = 1

\* C20: the correlation id a call is given is the next id of the server's
\* generator, whatever id the public caller put into its request; no two
\* calls ever hold the same correlation id.
C20_Step ==
    \A k \in Calls :
        (calls[k].pc = "idle" /\ calls'[k].pc = "send") =>
            /\ calls'[k].cid = nextCid
            /\ nextCid' = nextCid + 1
            /\ \A j \in Calls \ {k} : calls[j].cid # calls'[k].cid

C20_ServerMintedCid == [][C20_Step]_vars

\* The caller of call 2 sent the id that call 1 was given; both requests are
\* pending on one session under different ids.
C20_Witness ==
    /\ calls[1].pc = "wait" /\ calls[2].pc = "wait"
    /\ calls[2].callerCid = calls[1].cid
    /\ calls[1].cid # calls[2].cid
    /\ \E t \in Sessions : DOMAIN tunnels[t].pending = {calls[1].cid, calls[2].cid}

\* C11 (as claimed): a creator that resumes after its read of the store while
\* the route exists (in the registry or in the store) answers 409 and leaves
\* the registry and the store as they were.
C11_Step ==
    \A q \in Reqs :
        (/\ reqs[q].kind = "create"
         /\ reqs[q].pc = "checked" /\ reqs'[q].pc # "checked"
         /\ (RouteTaken(reqs[q].route) \/ db[reqs[q].route] # NoToken)) =>
            /\ reqs'[q].pc = "done"
            /\ reqs'[q].status_code = 409
            /\ UNCHANGED <<route_to_tunnel, token_to_route, tunnels, db>>

C11_ExistingRouteIs409 == [][C11_Step]_vars

\* The create requests other than q that put a session for q's route into
\* the registry after the one q removed.
CreatedAgain(q) ==
    {p \in Reqs : /\ reqs[p].kind = "create"
                  /\ reqs[p].route = reqs[q].route
                  /\ reqs[p].pc \in {"insert", "done"}
                  /\ reqs[p].token \notin {NoToken, reqs[q].token}}

\* C12: a DELETE of a route the registry does not hold answers 404 and
\* changes neither the registry nor the store.  A DELETE that removed a
\* session answers 200; if that session's record was in the store when the
\* DELETE began (its POST had answered 200), then when the DELETE answers the
\* session's token is in neither index nor in the store, and the route is
\* absent from the registry and from the store unless another POST has
\* created it again in the meantime.
C12_Step ==
    /\ \A q \in Reqs, r \in Routes :
           (SvcDelete(q, r) /\ route_to_tunnel[r] = NoTunnel) =>
               /\ reqs'[q].pc = "done"
               /\ reqs'[q].status_code = 404
               /\ UNCHANGED <<route_to_tunnel, token_to_route, tunnels, conns, db>>
    /\ \A q \in Reqs :
           (reqs[q].kind = "delete" /\ reqs[q].pc # "done" /\ reqs'[q].pc = "done"
            /\ reqs[q].token # NoToken) =>
               /\ reqs'[q].status_code = 200
               /\ reqs[q].stored = reqs[q].token =>
                      /\ token_to_route'[reqs[q].token] = NoRoute
                      /\ db'[reqs[q].route] # reqs[q].token
                      /\ \A t \in TunnelIds :
                             route_to_tunnel'[reqs[q].route] = t =>
                                 tunnels'[t].token # reqs[q].token
                      /\ \/ /\ route_to_tunnel'[reqs[q].route] = NoTunnel
                            /\ db'[reqs[q].route] = NoToken
                         \/ CreatedAgain(q) # {}

C16_Step ==
    /\ (ping.pc = "idle" /\ ping'.pc # "idle") =>
           /\ ping'.snapshot = {t \in Sessions : tunnels[t].connected
                                                 /\ tunnels[t].websocket # NoWs}
           /\ Len(ping'.todo) = Cardinality(ping'.snapshot)
           /\ {ping'.todo[i] : i \in 1..Len(ping'.todo)} = ping'.snapshot
    /\ (ping.pc = "send" /\ ping' # ping) =>
           LET t == Head(ping.todo) IN
           IF tunnels[t].websocket # NoWs /\ conns[tunnels[t].websocket].open
           THEN /\ t \in ping'.pinged
                /\ tunnels' = tunnels
                /\ conns' = conns
                /\ tunnels'[t].connected /\ tunnels'[t].websocket # NoWs
           ELSE /\ t \in ping'.failed
                /\ ping'.pc = "failed"
    /\ (ping.pc \in {"failed", "closing"} /\ ping'.pc \notin {"failed", "closing"}) =>
           LET t == Head(ping.todo) IN
           /\ tunnels'[t].websocket = NoWs
           /\ ~tunnels'[t].connected
           /\ tunnels[t].websocket # NoWs =>
                  /\ ~conns'[tunnels[t].websocket].open
                  /\ conns'[tunnels[t].websocket].closed_by_server
    /\ (ping.pc # "idle" /\ ping'.pc = "idle") =>
           ping'.pinged \cup ping'.failed = ping'.snapshot

C16_PingConnected == [][C16_Step]_vars

\* A call of ping_connected has returned; its snapshot held two sessions;
\* the ping of one succeeded and that session is still attached to its open
\* connection; the send to the other raised and that session is detached.
C16_Witness ==
    /\ ping.pc = "idle"
    /\ Cardinality(ping.snapshot) = 2
    /\ \E t \in ping.pinged :
           /\ tunnels[t].connected
           /\ tunnels[t].websocket # NoWs
           /\ conns[tunnels[t].websocket].open
    /\ \E t \in ping.failed :
           /\ ~tunnels[t].connected
           /\ tunnels[t].websocket = NoWs
           /\ \E c \in Conns : conns[c].closed_by_server /\ conns[c].token = tunnels[t].token

\* C21 (as claimed): a response frame whose status_code is not a JSON integer
\* or whose body_b64 is not valid base64 text is answered 502.
C21_MalformedIs502 ==
    (/\ fwd.op = "render"
     /\ \/ fwd.resp.status_code \notin {"missing", "200", "404"}
        \/ fwd.resp.body_b64 \in {"\"aGk\"", "\"<U+00E9>\"", "5"}) =>
        fwd.http.status_code = 502

\* C22 (as claimed): the headers of a request frame have lower-case names
\* and none of the edge-hop and hop-by-hop names.
C22_HeadersStripped ==
    fwd.op = "payload" =>
        /\ \A h \in fwd.headers : Lower(h) = h
        /\ fwd.headers \cap {"host", "connection", "transfer-encoding", "upgrade",
                              "keep-alive", "proxy-authenticate",
                              "proxy-authorization", "te", "trailers"} = {}

\* C24: once a send_ingress call that was cancelled while awaiting its
\* response has ended, no session of the registry holds its correlation id;
\* and from the moment of the cancellation a response frame for that id
\* changes nothing at all: no future of this or of any other call, no pending
\* table, no connection.
C24_Step ==
    /\ \A k \in Calls :
           (calls'[k].pc = "done" /\ calls'[k].outcome = "CancelledError") =>
               \A t \in TunnelIds :
                   (\E r \in AllRoutes : route_to_tunnel'[r] = t) =>
                       calls'[k].cid \notin DOMAIN tunnels'[t].pending
    /\ \A c \in Conns, m \in Messages :
           (/\ m.type = "response"
            /\ \E k \in Calls :
                   /\ calls[k].pc = "cancelled" \/ calls[k].outcome = "CancelledError"
                   /\ calls[k].cid = m.correlation_id
            /\ HandleClientMessage(c, m)) => UNCHANGED vars

C24_CancelFreesSlot == [][C24_Step]_vars

\* Call 1 was cancelled while its request was unanswered and has ended;
\* call 2 is still pending on the same session, whose connection is open and
\* reading frames, and is the only entry of the pending table.
C24_Witness ==
    /\ calls[1].pc = "done" /\ calls[1].outcome = "CancelledError"
    /\ calls[1].future = "cancelled"
    /\ calls[2].pc = "wait" /\ calls[2].future = "pending"
    /\ calls[1].websocket = calls[2].websocket
    /\ conns[calls[1].websocket].pc = "receiving"
    /\ conns[calls[1].websocket].open
    /\ \E t \in Sessions : /\ tunnels[t].websocket = calls[1].websocket
                           /\ DOMAIN tunnels[t].pending = {calls[2].cid}

\* C23 (as claimed): once the shutdown handler has run, no session is
\* attached, no connection is open and no pending table holds an entry.
C23_ShutdownDrains ==
    ping.pc = "cancelled" =>
        /\ \A t \in Sessions :
               /\ ~tunnels[t].connected
               /\ tunnels[t].websocket = NoWs
               /\ DOMAIN tunnels[t].pending = {}
        /\ \A c \in Conns : ~conns[c].open

\* C28: every send_ingress call that has started ends: it returns a response
\* or raises, whatever attach, detach, delete, create and ping steps are
\* interleaved with it.
C28_NeverHangs ==
    \A k \in Calls : (calls[k].pc # "idle") ~> (calls[k].pc = "done")

\* A call has ended by timeout although its route was deleted while the
\* request was in flight.
C28_Witness ==
    \E k \in Calls :
        /\ calls[k].pc = "done" /\ calls[k].outcome = "TimeoutError"
        /\ calls[k].frames = 1
        /\ route_to_tunnel[calls[k].route] = NoTunnel

\* ---- C29 ----
\* C29: whenever the registry lock is free, every session the registry holds
\* has connected = TRUE together with a websocket, or connected = FALSE
\* together with none; the flag and the field never disagree.
C29_ConnectedIffWebsocket ==
    lock.holder = "free" =>
        \A t \in Sessions :
            tunnels[t].connected <=> (tunnels[t].websocket # NoWs)

\* A session of the registry that was attached, failed its ping and was
\* reset by ping_connected.
C29_Witness ==
    /\ lock.holder = "free"
    /\ \E t \in Sessions :
          /\ t \in ping.failed
          /\ ~tunnels[t].connected
          /\ tunnels[t].websocket = NoWs
          /\ tunnels[t].last_seen # NoTime

\* ---- C30 ----
\* C30: the token index and the route index agree in every state: a token
\* maps to a route exactly when the registry holds a session for that route
\* with that token; two routes never share a token, and a token never maps
\* to a route without a session.
C30_IndexesAgree ==
    /\ \A tok \in Tokens, r \in AllRoutes :
           (token_to_route[tok] = r) <=>
               /\ route_to_tunnel[r] # NoTunnel
               /\ tunnels[route_to_tunnel[r]].token = tok
    /\ \A r1, r2 \in AllRoutes :
           (r1 # r2 /\ route_to_tunnel[r1] # NoTunnel /\ route_to_tunnel[r2] # NoTunnel) =>
               tunnels[route_to_tunnel[r1]].token # tunnels[route_to_tunnel[r2]].token
    /\ \A tok \in Tokens :
           token_to_route[tok] # NoRoute =>
               route_to_tunnel[token_to_route[tok]] # NoTunnel

\* Two routes were created and one of them deleted: its token is gone from
\* the token index while the other route keeps its own.
C30_Witness ==
    /\ route_to_tunnel["svc"] = NoTunnel
    /\ route_to_tunnel["aux"] # NoTunnel
    /\ token_to_route[tunnels[route_to_tunnel["aux"]].token] = "aux"
    /\ \E t \in TunnelIds :
          /\ tunnels[t].route = "svc"
          /\ token_to_route[tunnels[t].token] = NoRoute

\* ---- C27 ----
\* The tokens of sessions that were deleted from the registry.
DeletedTokens ==
    {tunnels[t].token : t \in {x \in TunnelIds : tunnels[x].token # NoToken}
                                \ Sessions}

\* C27: in every state after a route was deleted, its token is refused:
\* attach_websocket raises "Invalid token" for it and the upgrade check
\* closes with 4403, also when the route name exists again, whose session
\* then has another token; no connection holding the token is attached.
C27_TokenNeverReused ==
    \A tok \in DeletedTokens :
        /\ AttachError(tok) = "Invalid token"
        /\ ValidationCode(tok) = 4403
        /\ \A t \in Sessions : tunnels[t].token # tok
        /\ \A c \in Conns :
               (conns[c].token = tok /\ conns[c].pc = "receiving") =>
                   \A t \in Sessions : tunnels[t].websocket # c

\* The route was deleted and created again; a connection whose token was the
\* first session's failed to attach, and the new session
\* has a different token.
C27_Witness ==
    /\ Len(creates) = 2
    /\ creates[1].outcome = "ok" /\ creates[2].outcome = "ok"
    /\ creates[1].route = creates[2].route
    /\ creates[1].token # creates[2].token
    /\ creates[1].token \in DeletedTokens
    /\ token_to_route[creates[2].token] = creates[2].route
    /\ \E c \in Conns : conns[c].pc = "failed" /\ conns[c].token = creates[1].token

\* ---- C25 ----
C25_Step ==
    \A q \in Reqs :
        (\/ \E n \in Routes \cup BadNames : CreateTunnelEndpoint(q, "none", n)
         \/ ListTunnelsEndpoint(q, "none")
         \/ \E r \in Routes : DeleteTunnelEndpoint(q, "none", r)) =>
            /\ reqs'[q].pc = "done"
            /\ reqs'[q].status_code = 403
            /\ UNCHANGED <<route_to_tunnel, token_to_route, tunnels, db>>

\* C25: a create, list or delete request on /api/tunnels without credentials
\* is answered 403 at once and leaves the registry (both indexes and the
\* sessions) and the persistent store as they were.
C25_Unauthenticated403 == [][C25_Step]_vars

\* A create without credentials was refused and the route did not appear;
\* an authenticated create then made the route, and a delete without
\* credentials was refused and left it in the registry and in the store.
C25_Witness ==
    /\ reqs[1].kind = "create" /\ reqs[1].status_code = 403
    /\ reqs[2].kind = "create" /\ reqs[2].status_code = 200
    /\ reqs[3].kind = "delete" /\ reqs[3].status_code = 403
    /\ reqs[1].route = reqs[2].route /\ reqs[3].route = reqs[2].route
    /\ route_to_tunnel[reqs[2].route] # NoTunnel
    /\ db[reqs[2].route] # NoToken

\* ---- C26 ----
C26_Step ==
    \A q \in Reqs, cr \in Credentials, n \in BadNames :
        CreateTunnelEndpoint(q, cr, n) =>
            /\ reqs'[q].pc = "done"
            /\ reqs'[q].status_code \in {401, 403, 422}
            /\ (cr = "valid") => reqs'[q].status_code = 422
            /\ UNCHANGED <<route_to_tunnel, token_to_route, tunnels, db>>
            /\ route_to_tunnel'[n] = NoTunnel
            /\ db'[n] = NoToken
            /\ \A tok \in Tokens : token_to_route'[tok] # n

\* C26: a create request whose route is shorter than 3, longer than 64 or
\* has a character outside [A-Za-z0-9_-] ends at once with an error status
\* (422 when it is authenticated) and changes nothing: no session, no token
\* index entry and no stored record exists for that name.
C26_InvalidRouteRejected == [][C26_Step]_vars

\* The three kinds of invalid name were each sent by an authenticated user
\* and refused.
C26_Witness ==
    /\ \A n \in BadNames :
          \E q \in Reqs : /\ reqs[q].kind = "create" /\ reqs[q].route = n
                          /\ reqs[q].pc = "done" /\ reqs[q].status_code = 422
    /\ \A n \in Names : route_to_tunnel[n] = NoTunnel /\ db[n] = NoToken

\* ---- C31 ----
\* A future that holds an outcome keeps it: no step gives it another.
C31_OutcomeKept ==
    \A k \in Calls :
        calls[k].future \in {"result", "cancelled"} =>
            /\ calls'[k].future = calls[k].future
            /\ calls'[k].result = calls[k].result

\* The slot of a call is gone from every pending table when the call ends.
C31_SlotRemoved ==
    \A k \in Calls :
        (calls[k].pc # "done" /\ calls'[k].pc = "done" /\ calls'[k].cid # NoCid) =>
            \A t \in TunnelIds : calls'[k].cid \notin DOMAIN tunnels'[t].pending

\* C31 (as claimed): a sink gets one outcome and keeps it whatever frame,
\* timeout, cancellation, detach or deletion comes later, and the slot of
\* every request that ends has been removed from its pending table.
C31_ResolvedAndRemovedOnce == [][C31_OutcomeKept /\ C31_SlotRemoved]_vars

\* ---- C32 ----
\* C32 (as claimed): in no state is the registry lock held by a task that is
\* awaiting an operation on a connection (lock.conn names the connection
\* whose close is awaited by the holder).
C32_LockNeverSpansIO ==
    /\ lock.holder = "free"
    /\ lock.conn = NoWs

\* ---- C33 ----
\* C33 (as claimed): no two tasks are inside "await websocket.send_json" on
\* the same connection at once: neither two send_ingress_request calls nor
\* a call and the ping task.
C33_OneWriter ==
    /\ \A j, k \in Calls :
           (j # k /\ calls[j].pc = "send" /\ calls[k].pc = "send") =>
               calls[j].websocket # calls[k].websocket
    /\ \A k \in Calls :
           (calls[k].pc = "send" /\ ping.pc = "send") =>
               tunnels[Head(ping.todo)].websocket # calls[k].websocket

\* ---- C34 ----
\* A connection that is the websocket of no session of the registry.
Stale(c) == \A t \in Sessions : tunnels[t].websocket # c

C34_Step ==
    \A c \in Conns :
        Stale(c) =>
            /\ \A m \in Messages : HandleClientMessage(c, m) => UNCHANGED vars
            /\ (WsDisconnected(c) \/ WsError(c)) =>
                   UNCHANGED <<route_to_tunnel, token_to_route, tunnels, calls>>

\* C34: a frame dispatched for a connection that is no session's websocket
\* changes nothing (no future, no pending table, no last_seen), and a detach
\* for such a connection leaves every session as it was, in particular the
\* session that a newer connection is attached to.
C34_StaleHasNoEffect == [][C34_Step]_vars

\* Connection 1 was replaced by connection 2 on the same session and its
\* receive loop then ended in detach_websocket; the session is still
\* attached to connection 2, with a request pending on it.
C34_Witness ==
    /\ conns[1].pc = "ended" /\ conns[2].pc = "receiving"
    /\ conns[1].token = conns[2].token
    /\ \E t \in Sessions :
          /\ tunnels[t].websocket = 2 /\ tunnels[t].connected
          /\ tunnels[t].token = conns[1].token
          /\ \E k \in Calls : calls[k].pc = "wait" /\ calls[k].websocket = 2

\* ---- C35 ----
\* The send of a ping raised on the websocket the session had then, which
\* was closed or None; a websocket of the session that is open when the
\* failure is handled is therefore one attached since.
C35_Step ==
    (ping.pc \in {"failed", "closing"} /\ ping' # ping) =>
        LET t == Head(ping.todo) IN
        \A c \in Conns :
            (tunnels[t].websocket = c /\ conns[c].open) =>
                /\ conns'[c].open
                /\ ping'.pc \notin {"failed", "closing"} =>
                       (tunnels'[t].websocket = c /\ tunnels'[t].connected)

\* C35 (as claimed): handling a failed ping never closes or detaches a
\* connection that was attached to the session after the failing one.
C35_PingFailureSparesNewConnection == [][C35_Step]_vars

\* ---- C36 ----
C36_Step ==
    /\ \A c \in Conns :
           (conns[c].pc = "receiving" /\ conns'[c].pc = "ended") =>
               /\ \A t \in TunnelIds :
                      (t \in Sessions /\ tunnels[t].websocket = c) =>
                          (tunnels'[t].websocket = NoWs /\ ~tunnels'[t].connected)
               /\ UNCHANGED <<calls, route_to_tunnel, token_to_route>>
    /\ \A c \in Conns :
           conns'[c].pc = "ended" =>
               \A t \in TunnelIds :
                   (\E r \in AllRoutes : route_to_tunnel'[r] = t) =>
                       ~(tunnels'[t].websocket = c /\ tunnels'[t].connected)

\* C36: the step in which the receive loop of an attached connection ends,
\* by a disconnect or by any other exception, detaches that connection; in
\* every later state no session of the registry has it as its websocket
\* with connected = TRUE; the step touches no ingress call.
C36_LoopEndDetaches == [][C36_Step]_vars

\* The receive loop of connection 1 ended with an exception while a request
\* was waiting on it: the endpoint closed the socket, the session is in the
\* registry and detached, and the request is still waiting on its future.
C36_Witness ==
    /\ conns[1].pc = "ended" /\ conns[1].closed_by_server
    /\ \E t \in Sessions :
          /\ tunnels[t].token = conns[1].token
          /\ tunnels[t].websocket = NoWs /\ ~tunnels[t].connected
    /\ \E k \in Calls :
          /\ calls[k].websocket = 1
          /\ calls[k].pc = "wait" /\ calls[k].future = "pending"

\* ---- the clock ----

\* time.time() returns a later value from now on.
Tick ==
    /\ now < MaxNow
    /\ now' = now + 1
    /\ UNCHANGED <<reg, calls, creates, nextCid, db, reqs, ping, fwd>>

\* {"type": "pong", "ts": ...}
Pong == [type |-> "pong", correlation_id |-> NoCid, status_code |-> 0]

NextClock ==
    \/ Tick
    \/ \E c \in Conns : HandleClientMessage(c, Pong)
    \/ PingSnapshot
    \/ PingSend
    \/ PingFail
    \/ PingFailClose
    \/ \E r \in Routes : CreateTunnel(r)
    \/ \E r \in Routes : DeleteTunnel(r)
    \/ DeleteTunnelClose
    \/ \E c \in Conns, tok \in Tokens \cup {NoToken} : WsConnect(c, tok)
    \/ WsRejectClose
    \/ \E c \in Conns : WsAttach(c)
    \/ \E c \in Conns : ClientDisconnect(c)
    \/ \E c \in Conns : WsDisconnected(c)
    \/ \E c \in Conns : WsError(c)

SpecClock == Init /\ [][NextClock]_vars

\* ---- C37 ----
C37_Step ==
    \A t \in TunnelIds :
        tunnels[t].last_seen # NoTime =>
            /\ tunnels'[t].last_seen # NoTime
            /\ tunnels'[t].last_seen >= tunnels[t].last_seen

\* C37: with a clock that never goes back, no step lowers the last_seen of
\* a session or resets it to None: attach, pong, detach, ping failure and
\* re-attach each write the time of the moment they run.
C37_LastSeenMonotonic == [][C37_Step]_vars

\* The clock advanced twice; a session that had been attached then failed
\* its ping and was reset by ping_connected, which wrote the latest reading.
C37_Witness ==
    \E t \in Sessions :
        /\ t \in ping.failed
        /\ ~tunnels[t].connected
        /\ tunnels[t].last_seen = 2
        /\ now = 2

\* ---- the registry called with payloads that carry a correlation id ----

\* send_ingress_request keeps the correlation id of the payload if it has
\* one, so two sessions can hold the same id in their pending tables.
NextIso ==
    \/ \E r \in AllRoutes : CreateTunnel(r)
    \/ \E c \in Conns, tok \in Tokens \cup {NoToken} : WsConnect(c, tok)
    \/ WsRejectClose
    \/ \E c \in Conns : WsAttach(c)
    \/ \E c \in Conns : ClientDisconnect(c)
    \/ \E c \in Conns : WsDisconnected(c)
    \/ \E c \in Conns, m \in Messages : HandleClientMessage(c, m)
    \/ \E k \in Calls, r \in AllRoutes, cid \in Cids \cup {NoCid} :
           SendIngressPayload(k, r, NoCid, cid)
    \/ \E k \in Calls : SendFrame(k)
    \/ \E k \in Calls : SendFrameFails(k)
    \/ \E k \in Calls : Timeout(k)
    \/ \E k \in Calls : ReturnResponse(k)
    \/ \E k \in Calls : RaiseTimeout(k)

SpecIso == Init /\ [][NextIso]_vars

\* ---- C38 ----
C38_Step ==
    \A c \in Conns, m \in Messages :
        HandleClientMessage(c, m) =>
            \A k \in Calls :
                calls'[k] # calls[k] =>
                    \E t \in Sessions :
                        /\ tunnels[t].websocket = c
                        /\ m.correlation_id \in DOMAIN tunnels[t].pending
                        /\ tunnels[t].pending[m.correlation_id] = k
                        /\ calls[k].route = tunnels[t].route

\* C38: a frame read from a connection changes only a request that is in
\* the pending table of the session that connection is attached to, under
\* the frame's correlation id; a request of another session is never
\* resolved by it, also when it is pending under the same id.
C38_ResponsesIsolated == [][C38_Step]_vars

\* Two sessions each hold a pending request under the same correlation id;
\* the response for one has arrived on its connection and resolved it, the
\* request of the other session is still waiting.
C38_Witness ==
    /\ calls[1].cid = calls[2].cid /\ calls[1].cid # NoCid
    /\ calls[1].route # calls[2].route
    /\ calls[1].websocket # calls[2].websocket
    /\ \E j, k \in Calls :
          /\ calls[j].pc = "wait" /\ calls[j].future = "result"
          /\ calls[k].pc = "wait" /\ calls[k].future = "pending"
          /\ \E t \in Sessions : /\ tunnels[t].route = calls[k].route
                                 /\ calls[k].cid \in DOMAIN tunnels[t].pending

\* ---- C39 ----
\* C39 (as claimed): when no create or delete request is under way, a route
\* has a session in the registry exactly when the store has a record for it.
C39_RegistryMatchesStore ==
    (\A q \in Reqs : reqs[q].pc \in {"idle", "done"}) =>
        \A r \in Names : (route_to_tunnel[r] # NoTunnel) <=> (db[r] # NoToken)

\* ---- the management API used by two users ----

NextOwner ==
    \/ \E q \in Reqs, u \in Users, r \in Routes : SvcCreateReadAs(q, u, r)
    \/ \E q \in Reqs : SvcCreateRegister(q)
    \/ \E q \in Reqs : SvcCreateCommit(q)
    \/ \E q \in Reqs, u \in Users, r \in Routes : SvcDeleteAs(q, u, r)
    \/ \E q \in Reqs : SvcDeleteClose(q)
    \/ \E q \in Reqs : SvcDeleteRead(q)
    \/ \E q \in Reqs : SvcDeleteCommit(q)
    \/ \E c \in Conns, tok \in Tokens \cup {NoToken} : WsConnect(c, tok)
    \/ WsRejectClose
    \/ \E c \in Conns : WsAttach(c)
    \/ \E c \in Conns : ClientDisconnect(c)
    \/ \E c \in Conns : WsDisconnected(c)

SpecOwner == Init /\ [][NextOwner]_vars

\* ---- C40 ----
\* The user whose create request made the session t.
CreatedBy(t, user) ==
    \E p \in Reqs : /\ reqs[p].kind = "create"
                     /\ reqs[p].token = tunnels[t].token
                     /\ reqs[p].user = user

C40_Step ==
    \A q \in Reqs, u \in Users, r \in Routes :
        (/\ SvcDeleteAs(q, u, r)
         /\ route_to_tunnel[r] # NoTunnel
         /\ \E o \in Users \ {u} : CreatedBy(route_to_tunnel[r], o)) =>
            /\ UNCHANGED <<route_to_tunnel, token_to_route, db, conns, lock>>
            /\ reqs'[q].pc = "done"
            /\ reqs'[q].status_code \in {403, 404}

\* C40 (as claimed): a DELETE by an authenticated user who did not create
\* the route is refused and leaves the session, the token index, the stored
\* record and the connection as they were.
C40_OnlyOwnerDeletes == [][C40_Step]_vars

====
